---- MODULE Spec2Model ----
(***************************************************************************)
(* Model of the trie-backed spell checker of Forgerly                      *)
(* (src/c_lib/spell_checker/spell_checker_engine.cpp).                     *)
(*                                                                         *)
(* A character is its ASCII code.  A C string argument, a const char pointer, is a*)
(* record [null, str]: the null pointer, or a sequence of character codes. *)
(* A trie is the set of its nodes, each node named by the sequence of      *)
(* child indices (0..25) that leads to it from the root <<>>, together     *)
(* with the set of nodes whose isEndOfWord flag is set.                    *)
(***************************************************************************)
EXTENDS Integers, Sequences, FiniteSets, TLC

VARIABLES dictionaryTrie, customTrie, dictionaryWords, customWords, op, ret, fault

vars == <<dictionaryTrie, customTrie, dictionaryWords, customWords, op, ret, fault>>

\* ------------------------------------------------------------------------
\* Bounds of the model
\* ------------------------------------------------------------------------
MaxBatch == 2
MaxDist == 2

\* ------------------------------------------------------------------------
\* Characters and strings
\* ------------------------------------------------------------------------
AlphabetSize == 26
CharA == 97

SeqsUpTo(S, n) == UNION {[1..k -> S] : k \in 0..n}

NullWord == [null |-> TRUE, str |-> <<>>]
Str(s) == [null |-> FALSE, str |-> s]

\* std::tolower in the C locale, applied to an unsigned char
tolower(c) == IF c >= 65 /\ c <= 90 THEN c + 32 ELSE c

toLowerCase_Identity(str) == str

toLowerCase(str) == [i \in 1..Len(str) |-> tolower(str[i])]

\* the test `!word || word[0] == '\0'` that opens every public operation
IsNullOrEmpty_NullOnly(word) == word.null

IsNullOrEmpty(word) == word.null \/ Len(word.str) = 0

\* ------------------------------------------------------------------------
\* TrieNode
\* ------------------------------------------------------------------------
EmptyTrie == [nodes |-> {<<>>}, end |-> {}]

HasChild(t, node, i) == Append(node, i) \in t.nodes

\* the indices i with node->children[i] != nullptr
Children(t, node) ==
    {n[Len(n)] : n \in {m \in t.nodes : /\ Len(m) = Len(node) + 1
                                         /\ SubSeq(m, 1, Len(node)) = node}}

\* the loop `for (int i = 0; i < 26; i++) if (node->children[i]) return false;`
NoChildren(t, node) == Children(t, node) = {}

IsPrefixOf(p, q) == Len(p) <= Len(q) /\ SubSeq(q, 1, Len(p)) = p

\* `delete node->children[index]; node->children[index] = nullptr`: the child
\* leaves the tree, and with it whatever was reachable only through it
DeleteChild_Keep(t, node, index) == t

DeleteChild(t, node, index) ==
    LET child == Append(node, index)
    IN  [nodes |-> {n \in t.nodes : ~IsPrefixOf(child, n)},
         end   |-> {n \in t.end : ~IsPrefixOf(child, n)}]

\* ------------------------------------------------------------------------
\* insertWord
\* ------------------------------------------------------------------------
\* `curr->isEndOfWord = true`, and the variant that flips the flag
markEndOfWord_Flip(t, curr) ==
    IF curr \in t.end
    THEN [t EXCEPT !.end = @ \ {curr}]
    ELSE [t EXCEPT !.end = @ \cup {curr}]

markEndOfWord(t, curr) == [t EXCEPT !.end = @ \cup {curr}]

\* the loop of insertWord, and the variant that gives the word up at the
\* first character outside a-z
RECURSIVE insertLoop_Reject(_, _, _, _)
insertLoop_Reject(t, word, i, curr) ==
    IF i > Len(word)
    THEN markEndOfWord(t, curr)
    ELSE IF word[i] < CharA \/ word[i] > CharA + AlphabetSize - 1
         THEN t
         ELSE LET index == word[i] - CharA
                  next  == Append(curr, index)
              IN  insertLoop_Reject([t EXCEPT !.nodes = @ \cup {next}], word, i + 1, next)

RECURSIVE insertLoop(_, _, _, _)
insertLoop(t, word, i, curr) ==
    IF i > Len(word)
    THEN markEndOfWord(t, curr)
    ELSE IF word[i] < CharA \/ word[i] > CharA + AlphabetSize - 1
         THEN insertLoop(t, word, i + 1, curr)
         ELSE LET index == word[i] - CharA
                  next  == Append(curr, index)
              IN  insertLoop([t EXCEPT !.nodes = @ \cup {next}], word, i + 1, next)

insertWord(root, word) == insertLoop(root, word, 1, <<>>)

\* ------------------------------------------------------------------------
\* removeWordRecursive: the result is the tree after the call and the
\* returned flag ("the caller may delete this node")
\* ------------------------------------------------------------------------
removeBaseCase_KeepFlag(t, node) ==
    [t |-> t, del |-> NoChildren(t, node)]

removeBaseCase_NoChildCheck(t, node) ==
    [t |-> [t EXCEPT !.end = @ \ {node}], del |-> TRUE]

removeBaseCase(t, node) ==
    [t |-> [t EXCEPT !.end = @ \ {node}], del |-> NoChildren(t, node)]

removeUnwind_IgnoreEndOfWord(t, node, index, shouldDeleteChild) ==
    IF shouldDeleteChild
    THEN LET t2 == DeleteChild(t, node, index)
         IN  [t |-> t2, del |-> NoChildren(t2, node)]
    ELSE [t |-> t, del |-> FALSE]

removeUnwind(t, node, index, shouldDeleteChild) ==
    IF shouldDeleteChild
    THEN LET t2 == DeleteChild(t, node, index)
         IN  IF node \notin t2.end
             THEN [t |-> t2, del |-> NoChildren(t2, node)]
             ELSE [t |-> t2, del |-> FALSE]
    ELSE [t |-> t, del |-> FALSE]

\* removeWordRecursive, and the variant that passes over a character outside
\* a-z as insertWord does
RECURSIVE removeWordRecursive_Skip(_, _, _, _)
removeWordRecursive_Skip(t, node, word, depth) ==
    IF node \notin t.nodes
    THEN [t |-> t, del |-> FALSE]
    ELSE IF depth = Len(word)
         THEN removeBaseCase(t, node)
         ELSE LET index == word[depth + 1] - CharA
              IN  IF index < 0 \/ index >= AlphabetSize
                  THEN removeWordRecursive_Skip(t, node, word, depth + 1)
                  ELSE IF ~HasChild(t, node, index)
                       THEN [t |-> t, del |-> FALSE]
                       ELSE LET r == removeWordRecursive_Skip(t, Append(node, index),
                                                              word, depth + 1)
                            IN  removeUnwind(r.t, node, index, r.del)

RECURSIVE removeWordRecursive(_, _, _, _)
removeWordRecursive(t, node, word, depth) ==
    IF node \notin t.nodes
    THEN [t |-> t, del |-> FALSE]
    ELSE IF depth = Len(word)
         THEN removeBaseCase(t, node)
         ELSE LET index == word[depth + 1] - CharA
              IN  IF index < 0 \/ index >= AlphabetSize \/ ~HasChild(t, node, index)
                  THEN [t |-> t, del |-> FALSE]
                  ELSE LET r == removeWordRecursive(t, Append(node, index), word, depth + 1)
                       IN  removeUnwind(r.t, node, index, r.del)

\* ------------------------------------------------------------------------
\* searchWord
\* ------------------------------------------------------------------------
searchAtEnd_AnyNode(root, curr) == TRUE

searchAtEnd(root, curr) == curr \in root.end

\* the loop of searchWord, and the variant that passes over a character
\* outside a-z as insertWord does
RECURSIVE searchLoop_Skip(_, _, _, _)
searchLoop_Skip(root, word, i, curr) ==
    IF i > Len(word)
    THEN searchAtEnd(root, curr)
    ELSE IF word[i] < CharA \/ word[i] > CharA + AlphabetSize - 1
         THEN searchLoop_Skip(root, word, i + 1, curr)
         ELSE LET index == word[i] - CharA
              IN  IF ~HasChild(root, curr, index)
                  THEN FALSE
                  ELSE searchLoop_Skip(root, word, i + 1, Append(curr, index))

RECURSIVE searchLoop(_, _, _, _)
searchLoop(root, word, i, curr) ==
    IF i > Len(word)
    THEN searchAtEnd(root, curr)
    ELSE IF word[i] < CharA \/ word[i] > CharA + AlphabetSize - 1
         THEN FALSE
         ELSE LET index == word[i] - CharA
              IN  IF ~HasChild(root, curr, index)
                  THEN FALSE
                  ELSE searchLoop(root, word, i + 1, Append(curr, index))

searchWord(root, word) == searchLoop(root, word, 1, <<>>)

\* ------------------------------------------------------------------------
\* Public operations of SpellCheckerEngine, as functions of the tries
\* ------------------------------------------------------------------------
RECURSIVE bulkInsertLoop(_, _, _)
bulkInsertLoop(root, words, i) ==
    IF i > Len(words)
    THEN root
    ELSE IF ~IsNullOrEmpty(words[i])
         THEN bulkInsertLoop(insertWord(root, toLowerCase(words[i].str)), words, i + 1)
         ELSE bulkInsertLoop(root, words, i + 1)

bulkInsert(root, words) == bulkInsertLoop(root, words, 1)

addCustomWord(custom, word) ==
    IF ~IsNullOrEmpty(word)
    THEN insertWord(custom, toLowerCase(word.str))
    ELSE custom

removeCustomWord(custom, word) ==
    IF IsNullOrEmpty(word)
    THEN custom
    ELSE removeWordRecursive(custom, <<>>, toLowerCase(word.str), 0).t

isCorrect_CustomOnly(custom, dictionary, word) ==
    IF IsNullOrEmpty(word)
    THEN FALSE
    ELSE searchWord(custom, toLowerCase(word.str))

isCorrect(custom, dictionary, word) ==
    IF IsNullOrEmpty(word)
    THEN FALSE
    ELSE IF searchWord(custom, toLowerCase(word.str))
         THEN TRUE
         ELSE searchWord(dictionary, toLowerCase(word.str))

existsInDictionary(dictionary, word) ==
    IF IsNullOrEmpty(word) THEN FALSE ELSE searchWord(dictionary, toLowerCase(word.str))

existsInCustom(custom, word) ==
    IF IsNullOrEmpty(word) THEN FALSE ELSE searchWord(custom, toLowerCase(word.str))

\* ------------------------------------------------------------------------
\* searchSuggestions: one Levenshtein row per trie edge.  A row of the
\* code, indexed 0..size, is a sequence indexed 1..size+1
\* ------------------------------------------------------------------------
Min2(a, b) == IF a <= b THEN a ELSE b

rowCell_NoMatch(letter, target, prevRow, currentRow, i) ==
    Min2(currentRow[i] + 1, Min2(prevRow[i + 1] + 1, prevRow[i] + 1))

rowCell(letter, target, prevRow, currentRow, i) ==
    LET insertCost  == currentRow[i] + 1
        deleteCost  == prevRow[i + 1] + 1
        replaceCost == IF target[i] = letter THEN prevRow[i] ELSE prevRow[i] + 1
    IN  Min2(insertCost, Min2(deleteCost, replaceCost))

RECURSIVE rowLoop(_, _, _, _, _)
rowLoop(letter, target, prevRow, currentRow, i) ==
    IF i > Len(target)
    THEN currentRow
    ELSE rowLoop(letter, target, prevRow,
                 Append(currentRow, rowCell(letter, target, prevRow, currentRow, i)), i + 1)

levenshteinRow(letter, target, prevRow) ==
    rowLoop(letter, target, prevRow, <<prevRow[1] + 1>>, 1)

firstRow(target) == [i \in 1..(Len(target) + 1) |-> i - 1]

MinElement(row) == CHOOSE m \in {row[i] : i \in DOMAIN row} :
                       \A i \in DOMAIN row : m <= row[i]

ShouldDescend_LastCell(currentRow, maxCost) == currentRow[Len(currentRow)] <= maxCost

ShouldDescend(currentRow, maxCost) == MinElement(currentRow) <= maxCost

RECURSIVE searchSuggestions(_, _, _, _, _, _, _, _)
RECURSIVE searchChildren(_, _, _, _, _, _, _, _)

searchSuggestions(t, node, letter, target, prevRow, maxCost, currentWord, results) ==
    LET size       == Len(target)
        currentRow == levenshteinRow(letter, target, prevRow)
        results1   == IF currentRow[size + 1] <= maxCost /\ node \in t.end
                      THEN Append(results, [word |-> currentWord,
                                            distance |-> currentRow[size + 1]])
                      ELSE results
    IN  IF ShouldDescend(currentRow, maxCost)
        THEN searchChildren(t, node, 0, target, currentRow, maxCost, currentWord, results1)
        ELSE results1

\* the loop `for (int i = 0; i < 26; i++) if (node->children[i]) ...`, which
\* getSuggestions runs on each root with the empty path and the first row
searchChildren(t, node, i, target, row, maxCost, currentWord, results) ==
    LET present == {j \in Children(t, node) : j >= i /\ j < AlphabetSize}
    IN  IF present = {}
        THEN results
        ELSE LET j == CHOOSE m \in present : \A n \in present : m <= n
             IN  searchChildren(t, node, j + 1, target, row, maxCost, currentWord,
                     searchSuggestions(t, Append(node, j), CharA + j, target, row, maxCost,
                                       Append(currentWord, CharA + j), results))

\* std::string operator<
StrLess(a, b) ==
    \E k \in 1..(Len(b)) :
        /\ k <= Len(a) + 1
        /\ \A j \in 1..(k - 1) : a[j] = b[j]
        /\ (k = Len(a) + 1 \/ a[k] < b[k])

SuggestionLess_DistanceOnly(a, b) == a.distance < b.distance

SuggestionLess(a, b) ==
    IF a.distance # b.distance
    THEN a.distance < b.distance
    ELSE StrLess(a.word, b.word)

\* std::sort with SuggestionLess
RECURSIVE sortInsert(_, _)
sortInsert(x, sorted) ==
    IF sorted = <<>>
    THEN <<x>>
    ELSE IF SuggestionLess(x, Head(sorted))
         THEN <<x>> \o sorted
         ELSE <<Head(sorted)>> \o sortInsert(x, Tail(sorted))

RECURSIVE sortResults(_)
sortResults(results) ==
    IF results = <<>>
    THEN <<>>
    ELSE sortInsert(results[Len(results)], sortResults(SubSeq(results, 1, Len(results) - 1)))

\* std::unique with equality of the words, then erase
RECURSIVE uniqueLoop(_, _, _)
uniqueLoop(results, i, kept) ==
    IF i > Len(results)
    THEN kept
    ELSE IF kept # <<>> /\ kept[Len(kept)].word = results[i].word
         THEN uniqueLoop(results, i + 1, kept)
         ELSE uniqueLoop(results, i + 1, Append(kept, results[i]))

uniqueResults_KeepAll(results) == results

uniqueResults(results) == uniqueLoop(results, 1, <<>>)

\* the hits of the custom trie, then those of the dictionary trie
collectSuggestions(custom, dictionary, target, maxDistance) ==
    LET fromCustom == searchChildren(custom, <<>>, 0, target, firstRow(target),
                                     maxDistance, <<>>, <<>>)
    IN  searchChildren(dictionary, <<>>, 0, target, firstRow(target),
                       maxDistance, <<>>, fromCustom)

getSuggestions(custom, dictionary, word, maxDistance) ==
    IF IsNullOrEmpty(word)
    THEN <<>>
    ELSE LET target == toLowerCase(word.str)
         IN  uniqueResults(sortResults(
                 collectSuggestions(custom, dictionary, target, maxDistance)))

\* std::sort promises an arrangement with no pair out of order and says
\* nothing of the order of entries the comparator does not tell apart:
\* every arrangement it may return, and every result getSuggestions may
\* then return
RECURSIVE sortOutcomesOf(_, _)
sortOutcomesOf(results, rest) ==
    IF rest = {}
    THEN {<<>>}
    ELSE UNION {{<<results[k]>> \o p : p \in sortOutcomesOf(results, rest \ {k})} :
                   k \in {k \in rest :
                            \A m \in rest : ~SuggestionLess(results[m], results[k])}}

sortOutcomes(results) == sortOutcomesOf(results, DOMAIN results)

getSuggestionsOutcomes(custom, dictionary, word, maxDistance) ==
    IF IsNullOrEmpty(word)
    THEN {<<>>}
    ELSE {uniqueResults(p) :
             p \in sortOutcomes(collectSuggestions(custom, dictionary,
                                                   toLowerCase(word.str), maxDistance))}

\* ------------------------------------------------------------------------
\* The abstract word sets the two stores stand for: what a caller who reads
\* the interface expects each store to hold after the calls made so far.
\* dictionaryWords and customWords record them next to the tries; no
\* operation of the engine reads them.
\* ------------------------------------------------------------------------
IsLetter(c) == c >= CharA /\ c <= CharA + AlphabetSize - 1

Normalized(str) == SelectSeq(toLowerCase(str), IsLetter)

SetInsert(S, word) ==
    IF word.null \/ word.str = <<>> THEN S ELSE S \cup {Normalized(word.str)}

SetRemove(S, word) ==
    IF word.null \/ word.str = <<>> THEN S ELSE S \ {toLowerCase(word.str)}

RECURSIVE SetInsertAll(_, _, _)
SetInsertAll(S, words, i) ==
    IF i > Len(words) THEN S ELSE SetInsertAll(SetInsert(S, words[i]), words, i + 1)

\* ------------------------------------------------------------------------
\* Inputs
\* ------------------------------------------------------------------------
\* "", "a", "aa", "ab", "abb": a chain of prefixes and a pair of siblings;
\* "Ab": upper case; "-", "a-b": characters outside a-z
Words == {<<>>, <<97>>, <<97, 97>>, <<97, 98>>, <<97, 98, 98>>,
          <<65, 98>>, <<45>>, <<97, 45, 98>>}

Inputs == {NullWord} \cup {Str(s) : s \in Words}

\* the inputs, and "b", "ba"
Queries == Inputs \cup {Str(<<98>>), Str(<<98, 97>>)}

\* null, "", "Ab"
BatchEntries == {NullWord, Str(<<>>), Str(<<65, 98>>)}

Batches == SeqsUpTo(BatchEntries, MaxBatch)

NoRet == [ok |-> FALSE, results |-> <<>>]

Op(name, word, words, maxDistance, prevAdd, wasIn) ==
    [name |-> name, word |-> word, words |-> words, maxDistance |-> maxDistance,
     prevAdd |-> prevAdd, wasIn |-> wasIn]

\* a public operation that reads through the null pointer it was handed
Faults(word) == ~IsNullOrEmpty(word) /\ word.null

\* ------------------------------------------------------------------------
\* State machine
\* ------------------------------------------------------------------------
Init ==
    /\ dictionaryTrie = EmptyTrie
    /\ customTrie = EmptyTrie
    /\ dictionaryWords = {}
    /\ customWords = {}
    /\ op = Op("new", NullWord, <<>>, 0, FALSE, FALSE)
    /\ ret = NoRet
    /\ fault = FALSE

LoadDictionary ==
    \E words \in Batches :
        /\ dictionaryTrie' = bulkInsert(dictionaryTrie, words)
        /\ dictionaryWords' = SetInsertAll(dictionaryWords, words, 1)
        /\ op' = Op("loadDictionary", NullWord, words, 0, FALSE, FALSE)
        /\ ret' = NoRet
        /\ fault' = (fault \/ \E i \in 1..Len(words) : Faults(words[i]))
        /\ UNCHANGED <<customTrie, customWords>>

LoadCustomWords ==
    \E words \in Batches :
        /\ customTrie' = bulkInsert(customTrie, words)
        /\ customWords' = SetInsertAll(customWords, words, 1)
        /\ op' = Op("loadCustomWords", NullWord, words, 0, FALSE, FALSE)
        /\ ret' = NoRet
        /\ fault' = (fault \/ \E i \in 1..Len(words) : Faults(words[i]))
        /\ UNCHANGED <<dictionaryTrie, dictionaryWords>>

\* op.prevAdd: the call before this one was addCustomWord of the same text;
\* op.wasIn: the custom store held the word when the call was made
AddCustomWord ==
    \E word \in Inputs :
        /\ customTrie' = addCustomWord(customTrie, word)
        /\ customWords' = SetInsert(customWords, word)
        /\ op' = Op("addCustomWord", word, <<>>, 0,
                    op.name = "addCustomWord" /\ op.word = word,
                    ~word.null /\ word.str # <<>> /\ Normalized(word.str) \in customWords)
        /\ ret' = NoRet
        /\ fault' = (fault \/ Faults(word))
        /\ UNCHANGED <<dictionaryTrie, dictionaryWords>>

\* the variant that removes from the dictionary store
RemoveCustomWord_FromDictionary ==
    \E word \in Inputs :
        /\ dictionaryTrie' = removeCustomWord(dictionaryTrie, word)
        /\ dictionaryWords' = SetRemove(dictionaryWords, word)
        /\ op' = Op("removeCustomWord", word, <<>>, 0,
                    op.name = "addCustomWord" /\ op.word = word,
                    ~word.null /\ word.str # <<>> /\ toLowerCase(word.str) \in customWords)
        /\ ret' = NoRet
        /\ fault' = (fault \/ Faults(word))
        /\ UNCHANGED <<customTrie, customWords>>

RemoveCustomWord ==
    \E word \in Inputs :
        /\ customTrie' = removeCustomWord(customTrie, word)
        /\ customWords' = SetRemove(customWords, word)
        /\ op' = Op("removeCustomWord", word, <<>>, 0,
                    op.name = "addCustomWord" /\ op.word = word,
                    ~word.null /\ word.str # <<>> /\ toLowerCase(word.str) \in customWords)
        /\ ret' = NoRet
        /\ fault' = (fault \/ Faults(word))
        /\ UNCHANGED <<dictionaryTrie, dictionaryWords>>

IsCorrect ==
    \E word \in Inputs :
        /\ op' = Op("isCorrect", word, <<>>, 0,
                    op.name = "addCustomWord" /\ op.word = word, FALSE)
        /\ ret' = [ok |-> isCorrect(customTrie, dictionaryTrie, word), results |-> <<>>]
        /\ fault' = (fault \/ Faults(word))
        /\ UNCHANGED <<dictionaryTrie, customTrie, dictionaryWords, customWords>>

GetSuggestions ==
    \E word \in Queries, maxDistance \in 0..MaxDist :
        /\ op' = Op("getSuggestions", word, <<>>, maxDistance, FALSE, FALSE)
        /\ ret' = [ok |-> FALSE,
                   results |-> getSuggestions(customTrie, dictionaryTrie, word, maxDistance)]
        /\ fault' = (fault \/ Faults(word))
        /\ UNCHANGED <<dictionaryTrie, customTrie, dictionaryWords, customWords>>

Next ==
    \/ LoadDictionary
    \/ LoadCustomWords
    \/ AddCustomWord
    \/ RemoveCustomWord
    \/ IsCorrect
    \/ GetSuggestions

Spec == Init /\ [][Next]_vars

\* ------------------------------------------------------------------------
\* spell_checker_get_suggestions of the C interface. A pointer argument is
\* TRUE when it is not null. `results` is what engine->getSuggestions
\* returned. output_array has room for MaxSuggestions entries; the result
\* tells the returned status, whether *output_count was written and with
\* what, and the entries written to output_array.
\* ------------------------------------------------------------------------
MaxSuggestions == 100

WordCopyLimit == 255

suggestionCount_NoLimit(results) == Len(results)

suggestionCount(results) == Min2(Len(results), MaxSuggestions)

\* strncpy(dest, src, 255); dest[255] = 0, read back as a C string
copyWord(str) == SubSeq(str, 1, Min2(Len(str), WordCopyLimit))

copySuggestions(results, count) ==
    [i \in 1..count |-> [word     |-> copyWord(results[i].word),
                         distance |-> results[i].distance]]

spell_checker_get_suggestions(handle, word, output_array, output_count, results) ==
    IF ~handle \/ word.null \/ ~output_array \/ ~output_count
    THEN [status       |-> -1,
          output_count |-> [written |-> output_count, value |-> 0],
          output_array |-> <<>>]
    ELSE LET count == suggestionCount(results)
         IN  [status       |-> 0,
              output_count |-> [written |-> TRUE, value |-> count],
              output_array |-> copySuggestions(results, count)]

\* Answers of the engine: n words in the order getSuggestions gives them,
\* the first of `len` letters and the others of two
EngineWord(i, len) ==
    [k \in 1..len |-> IF k = 1 THEN CharA + (i \div AlphabetSize)
                      ELSE IF k = 2 THEN CharA + (i % AlphabetSize)
                      ELSE CharA + AlphabetSize - 1]

EngineResult(n, len) ==
    [i \in 1..n |-> [word     |-> EngineWord(i, IF i = 1 THEN len ELSE 2),
                     distance |-> IF 2 * i <= n THEN 1 ELSE 2]]

ResultLengths ==
    {0, 1, 2, MaxSuggestions - 1, MaxSuggestions, MaxSuggestions + 1}

WordLengths ==
    {2, WordCopyLimit - 1, WordCopyLimit, WordCopyLimit + 1, WordCopyLimit + 2}

EngineResults == {EngineResult(n, len) : n \in ResultLengths, len \in WordLengths}

InitApi == Init

SpellCheckerGetSuggestions ==
    \E handle \in BOOLEAN, word \in {NullWord, Str(<<97, 98>>)},
       output_array \in BOOLEAN, output_count \in BOOLEAN,
       results \in EngineResults :
        /\ op' = [name |-> "spell_checker_get_suggestions", handle |-> handle,
                  word |-> word, output_array |-> output_array,
                  output_count |-> output_count, results |-> results]
        /\ ret' = spell_checker_get_suggestions(handle, word, output_array,
                                                output_count, results)
        /\ UNCHANGED <<dictionaryTrie, customTrie, dictionaryWords, customWords, fault>>

NextApi == SpellCheckerGetSuggestions

SpecApi == InitApi /\ [][NextApi]_vars

\* ------------------------------------------------------------------------
\* graph_layout_compute of the C interface. A pointer argument is TRUE when
\* it is not null. `results` is what engine->computeLayout returned.
\* The failure branch executes `*output_count = 0` whatever made the test
\* true; with a null output_count that write is undefined: the process
\* stops there (returned is FALSE and status has no meaning) or the write is
\* lost and -1 is returned. nullWrite tells that the write through the null
\* pointer was executed.
\* ------------------------------------------------------------------------
MaxNodes == 4

graph_layout_compute(handle, output_array, output_count, results) ==
    IF ~handle \/ ~output_array \/ ~output_count
    THEN IF output_count
         THEN {[returned     |-> TRUE,
                status       |-> -1,
                nullWrite    |-> FALSE,
                output_count |-> [written |-> TRUE, value |-> 0],
                output_array |-> <<>>]}
         ELSE {[returned     |-> r,
                status       |-> IF r THEN -1 ELSE 0,
                nullWrite    |-> TRUE,
                output_count |-> [written |-> FALSE, value |-> 0],
                output_array |-> <<>>] : r \in BOOLEAN}
    ELSE {[returned     |-> TRUE,
           status       |-> 0,
           nullWrite    |-> FALSE,
           output_count |-> [written |-> TRUE, value |-> Len(results)],
           output_array |-> results]}

\* Answers of the layout engine: one NodeOutput for each node, in the order
\* of the nodes
NodeOutputs(n) ==
    {[i \in 1..n |-> [id |-> i, x_pos |-> p[i], y_pos |-> 1 - p[i]]] :
        p \in [1..n -> {0, 1}]}

LayoutResults == UNION {NodeOutputs(n) : n \in 0..MaxNodes}

InitLayout == Init

GraphLayoutCompute ==
    \E handle \in BOOLEAN, output_array \in BOOLEAN, output_count \in BOOLEAN,
       results \in LayoutResults :
        \E outcome \in graph_layout_compute(handle, output_array, output_count, results) :
            /\ op' = [name |-> "graph_layout_compute", handle |-> handle,
                      output_array |-> output_array, output_count |-> output_count,
                      results |-> results]
            /\ ret' = outcome
            /\ fault' = (fault \/ outcome.nullWrite)
            /\ UNCHANGED <<dictionaryTrie, customTrie, dictionaryWords, customWords>>

NextLayout == GraphLayoutCompute

SpecLayout == InitLayout /\ [][NextLayout]_vars

\* ------------------------------------------------------------------------
\* Vocabulary of the properties
\* ------------------------------------------------------------------------
IsBlank(word) == word.null \/ word.str = <<>>

IsAsciiLetter(c) == (c >= 65 /\ c <= 90) \/ (c >= 97 /\ c <= 122)

LettersOnly(s) == s # <<>> /\ \A i \in DOMAIN s : IsAsciiLetter(s[i])

\* every spelling of s in upper and lower case
CaseVariants(s) ==
    {v \in [1..Len(s) -> UNION {{tolower(s[i]), tolower(s[i]) - 32} : i \in DOMAIN s}] :
        \A i \in DOMAIN s : tolower(v[i]) = tolower(s[i])}

IsProperPrefix(p, q) == Len(p) < Len(q) /\ SubSeq(q, 1, Len(p)) = p

\* the word a node's path spells
PathWord(n) == [i \in 1..Len(n) |-> n[i] + CharA]

\* the texts the last call asked to insert
InsertedTexts ==
    IF op.name = "addCustomWord"
    THEN IF op.word.null THEN {} ELSE {op.word.str}
    ELSE IF op.name \in {"loadCustomWords", "loadDictionary"}
         THEN {op.words[i].str : i \in {k \in DOMAIN op.words : ~op.words[k].null}}
         ELSE {}

\* edit distance with insertions, deletions and substitutions, by its
\* defining recurrence on the prefixes s[1..i] and t[1..j]
RECURSIVE EditDistance(_, _, _, _)
EditDistance(s, t, i, j) ==
    IF i = 0 THEN j
    ELSE IF j = 0 THEN i
    ELSE LET sub == EditDistance(s, t, i - 1, j - 1) + (IF s[i] = t[j] THEN 0 ELSE 1)
             del == EditDistance(s, t, i - 1, j) + 1
             ins == EditDistance(s, t, i, j - 1) + 1
         IN  Min2(sub, Min2(del, ins))

Levenshtein(s, t) == EditDistance(s, t, Len(s), Len(t))

\* the non-empty words the two stores are meant to hold
StoredWords == (customWords \cup dictionaryWords) \ {<<>>}

ResultWords == {ret.results[i].word : i \in DOMAIN ret.results}

\* ------------------------------------------------------------------------
\* C1: after addCustomWord(w), loadCustomWords or loadDictionary of a batch
\* holding w, for a non-empty w of ASCII letters only, isCorrect is true of w
\* and of every spelling of w in upper and lower case, whatever came before.
\* ------------------------------------------------------------------------
C1_InsertThenCorrect ==
    \A w \in InsertedTexts :
        LettersOnly(w) =>
            \A v \in CaseVariants(w) : isCorrect(customTrie, dictionaryTrie, Str(v))

C1_Witness ==
    /\ op.name = "addCustomWord"
    /\ ~op.word.null
    /\ LettersOnly(op.word.str)
    /\ \E i \in DOMAIN op.word.str : op.word.str[i] # tolower(op.word.str[i])
    /\ Cardinality(customWords) >= 3
    /\ \A v \in CaseVariants(op.word.str) : isCorrect(customTrie, dictionaryTrie, Str(v))

\* ------------------------------------------------------------------------
\* C2: removeCustomWord(w) right after addCustomWord(w), w of letters only,
\* leaves existsInCustom(w) false and keeps every other word the custom
\* store contained before the removal (prefixes of w, extensions of w and
\* words sharing a prefix with w included).
\* ------------------------------------------------------------------------
C2_Step ==
    (/\ op'.name = "removeCustomWord"
     /\ op'.prevAdd
     /\ ~op'.word.null
     /\ LettersOnly(op'.word.str))
    => /\ ~existsInCustom(customTrie', op'.word)
       /\ \A n \in customTrie.nodes :
              (/\ PathWord(n) # toLowerCase(op'.word.str)
               /\ existsInCustom(customTrie, Str(PathWord(n))))
              => existsInCustom(customTrie', Str(PathWord(n)))

\* C2, of every step of the engine
C2_DeleteCorrectness == [][C2_Step]_vars

C2_Witness ==
    /\ op.name = "removeCustomWord"
    /\ op.prevAdd
    /\ ~op.word.null
    /\ LettersOnly(op.word.str)
    /\ ~existsInCustom(customTrie, op.word)
    /\ \E p, e, q \in customWords :
          /\ p # <<>>
          /\ IsProperPrefix(p, toLowerCase(op.word.str))
          /\ IsProperPrefix(toLowerCase(op.word.str), e)
          /\ IsProperPrefix(p, q)
          /\ ~IsPrefixOf(toLowerCase(op.word.str), q)
          /\ existsInCustom(customTrie, Str(p))
          /\ existsInCustom(customTrie, Str(e))
          /\ existsInCustom(customTrie, Str(q))

\* ------------------------------------------------------------------------
\* C3: every (word, distance) that getSuggestions(q, maxDistance) returns has
\* distance equal to the Levenshtein distance (no transposition) between the
\* lower-cased q and word, and distance <= maxDistance.
\* ------------------------------------------------------------------------
C3_SuggestionDistance ==
    op.name = "getSuggestions" =>
        \A i \in DOMAIN ret.results :
            /\ ret.results[i].distance =
                   Levenshtein(toLowerCase(op.word.str), ret.results[i].word)
            /\ ret.results[i].distance <= op.maxDistance

\* a swap of two neighbouring letters is reported at distance 2
C3_Witness ==
    /\ op.name = "getSuggestions"
    /\ op.word.str = <<98, 97>>
    /\ \E i \in DOMAIN ret.results :
          ret.results[i].word = <<97, 98>> /\ ret.results[i].distance = 2
    /\ \E i \in DOMAIN ret.results : ret.results[i].distance = 1

\* ------------------------------------------------------------------------
\* C4: for a non-empty query q and maxDistance >= 0, every word a store holds
\* whose Levenshtein distance to the lower-cased q is <= maxDistance is in
\* the result of getSuggestions(q, maxDistance): pruning loses no hit.
\* ------------------------------------------------------------------------
C4_PruningLosesNoHit ==
    (op.name = "getSuggestions" /\ ~IsBlank(op.word)) =>
        \A w \in StoredWords :
            Levenshtein(toLowerCase(op.word.str), w) <= op.maxDistance
                => w \in ResultWords

\* a hit three edges deep, below a node whose row ends above maxDistance and
\* has its minimum within it; another stored word is too far and left out
C4_Witness ==
    /\ op.name = "getSuggestions"
    /\ ~IsBlank(op.word)
    /\ \E w \in ResultWords :
          /\ Len(w) = 3
          /\ LET target == toLowerCase(op.word.str)
                 row    == levenshteinRow(w[1], target, firstRow(target))
             IN  /\ row[Len(row)] > op.maxDistance
                 /\ ShouldDescend(row, op.maxDistance)
    /\ \E w \in StoredWords : w \notin ResultWords

\* ------------------------------------------------------------------------
\* C5: the result of getSuggestions is ordered by ascending distance, and
\* entries of equal distance by ascending lexicographic order of the word.
\* ------------------------------------------------------------------------
C5_SuggestionOrder ==
    op.name = "getSuggestions" =>
        \A i, j \in DOMAIN ret.results :
            i < j =>
                \/ ret.results[i].distance < ret.results[j].distance
                \/ /\ ret.results[i].distance = ret.results[j].distance
                   /\ ~StrLess(ret.results[j].word, ret.results[i].word)

C5_Witness ==
    /\ op.name = "getSuggestions"
    /\ \E i, j, k \in DOMAIN ret.results :
          /\ i < j /\ j < k
          /\ ret.results[i].distance = ret.results[j].distance
          /\ ret.results[i].word # ret.results[j].word
          /\ ret.results[j].distance < ret.results[k].distance
    /\ \E w \in ResultWords : w \in dictionaryWords /\ w \notin customWords

\* ------------------------------------------------------------------------
\* C6: the result of getSuggestions never holds the same word twice, also
\* when a qualifying word is in both stores.
\* ------------------------------------------------------------------------
C6_NoDuplicateWord ==
    op.name = "getSuggestions" =>
        \A i, j \in DOMAIN ret.results :
            ret.results[i].word = ret.results[j].word => i = j

C6_Witness ==
    /\ op.name = "getSuggestions"
    /\ Len(ret.results) >= 2
    /\ \E w \in ResultWords :
          /\ existsInCustom(customTrie, Str(w))
          /\ existsInDictionary(dictionaryTrie, Str(w))

\* ------------------------------------------------------------------------
\* C7: isCorrect(w) is true exactly when the lower-cased w is held by the
\* custom store or by the dictionary store; removeCustomWord(w) of a word
\* in both stores leaves isCorrect(w) true.
\* ------------------------------------------------------------------------
C7_IsCorrectEitherStore ==
    /\ \A word \in Queries :
          ~IsBlank(word) =>
              (isCorrect(customTrie, dictionaryTrie, word)
                   <=> toLowerCase(word.str) \in customWords \cup dictionaryWords)
    /\ op.name = "isCorrect" /\ ~IsBlank(op.word) =>
          (ret.ok <=> toLowerCase(op.word.str) \in customWords \cup dictionaryWords)
    /\ (/\ op.name = "removeCustomWord"
        /\ ~IsBlank(op.word)
        /\ toLowerCase(op.word.str) \in dictionaryWords)
       => isCorrect(customTrie, dictionaryTrie, op.word)

C7_Witness ==
    /\ op.name = "removeCustomWord"
    /\ op.wasIn
    /\ toLowerCase(op.word.str) \in dictionaryWords
    /\ ~existsInCustom(customTrie, op.word)
    /\ isCorrect(customTrie, dictionaryTrie, op.word)

\* ------------------------------------------------------------------------
\* C8: removeCustomWord(w) of a non-empty w the custom store does not
\* contain (path missing, or final node not word-terminal) leaves the custom
\* store as it was: no node deleted, no flag changed.
\* ------------------------------------------------------------------------
C8_Step ==
    (/\ op'.name = "removeCustomWord"
     /\ ~IsBlank(op'.word)
     /\ ~existsInCustom(customTrie, op'.word))
    => customTrie' = customTrie

\* C8, of every step of the engine
C8_RemoveAbsentIsNoOp == [][C8_Step]_vars

\* the path of w exists, its last node is not word-terminal
C8_Witness ==
    /\ op.name = "removeCustomWord"
    /\ ~IsBlank(op.word)
    /\ ~op.wasIn
    /\ \E n \in customTrie.nodes :
          /\ n # <<>>
          /\ PathWord(n) = toLowerCase(op.word.str)
          /\ n \notin customTrie.end

\* ------------------------------------------------------------------------
\* C9: a null or empty word never faults and never changes state: isCorrect
\* returns false, getSuggestions returns the empty sequence, addCustomWord
\* and removeCustomWord leave both stores as they were, and the two bulk
\* loads skip null and empty entries and insert the others.
\* ------------------------------------------------------------------------
NotBlank(word) == ~IsBlank(word)

C9_Step ==
    /\ ~fault'
    /\ (op'.name \in {"addCustomWord", "removeCustomWord", "isCorrect", "getSuggestions"}
        /\ IsBlank(op'.word))
       => /\ customTrie' = customTrie
          /\ dictionaryTrie' = dictionaryTrie
          /\ ~ret'.ok
          /\ ret'.results = <<>>
    /\ op'.name = "loadCustomWords"
       => /\ customTrie' = bulkInsert(customTrie, SelectSeq(op'.words, NotBlank))
          /\ dictionaryTrie' = dictionaryTrie
          /\ \A i \in DOMAIN op'.words :
                (NotBlank(op'.words[i]) /\ LettersOnly(op'.words[i].str))
                    => existsInCustom(customTrie', op'.words[i])
    /\ op'.name = "loadDictionary"
       => /\ dictionaryTrie' = bulkInsert(dictionaryTrie, SelectSeq(op'.words, NotBlank))
          /\ customTrie' = customTrie
          /\ \A i \in DOMAIN op'.words :
                (NotBlank(op'.words[i]) /\ LettersOnly(op'.words[i].str))
                    => existsInDictionary(dictionaryTrie', op'.words[i])

\* C9, of every step of the engine
C9_BlankWordIsNoOp == [][C9_Step]_vars

\* a batch with an empty entry in front of a word, loaded into a store that
\* did not hold the word
C9_Witness ==
    /\ op.name = "loadDictionary"
    /\ Len(op.words) = 2
    /\ IsBlank(op.words[1])
    /\ ~IsBlank(op.words[2])
    /\ existsInDictionary(dictionaryTrie, op.words[2])
    /\ customTrie.end # {}
    /\ ~fault

\* ------------------------------------------------------------------------
\* C10: a proper non-empty prefix p of a stored word v that was never
\* inserted, or was inserted and later removed, is not contained: the store
\* of v answers false for p, and isCorrect(p) is false unless the other
\* store holds p.
\* ------------------------------------------------------------------------
C10_PrefixNotContained ==
    /\ \A v \in customWords : \A k \in 1..(Len(v) - 1) :
          SubSeq(v, 1, k) \notin customWords
              => ~existsInCustom(customTrie, Str(SubSeq(v, 1, k)))
    /\ \A v \in dictionaryWords : \A k \in 1..(Len(v) - 1) :
          SubSeq(v, 1, k) \notin dictionaryWords
              => ~existsInDictionary(dictionaryTrie, Str(SubSeq(v, 1, k)))
    /\ \A v \in customWords \cup dictionaryWords : \A k \in 1..(Len(v) - 1) :
          SubSeq(v, 1, k) \notin customWords \cup dictionaryWords
              => ~isCorrect(customTrie, dictionaryTrie, Str(SubSeq(v, 1, k)))

\* the prefix was in the store and has been removed; its extension stays
C10_Witness ==
    /\ op.name = "removeCustomWord"
    /\ op.wasIn
    /\ \E v \in customWords : IsProperPrefix(toLowerCase(op.word.str), v)
    /\ ~isCorrect(customTrie, dictionaryTrie, op.word)


\* ------------------------------------------------------------------------
\* C11: inserting a word the store already contains (addCustomWord, or a
\* bulk load, of the same word a second time) leaves the nodes and the
\* terminal flags of that store exactly as they were.
\* ------------------------------------------------------------------------
AllContained(root, words) ==
    \A i \in DOMAIN words :
        IsBlank(words[i]) \/ searchWord(root, toLowerCase(words[i].str))

C11_Step ==
    /\ (/\ op'.name = "addCustomWord"
        /\ ~IsBlank(op'.word)
        /\ \/ existsInCustom(customTrie, op'.word)
           \/ (op.name = "addCustomWord" /\ op.word = op'.word))
       => customTrie' = customTrie
    /\ (/\ op'.name = "loadCustomWords"
        /\ \/ AllContained(customTrie, op'.words)
           \/ (op.name = "loadCustomWords" /\ op.words = op'.words))
       => customTrie' = customTrie
    /\ (/\ op'.name = "loadDictionary"
        /\ \/ AllContained(dictionaryTrie, op'.words)
           \/ (op.name = "loadDictionary" /\ op.words = op'.words))
       => dictionaryTrie' = dictionaryTrie

\* C11, of every step of the engine
C11_InsertIdempotent == [][C11_Step]_vars

\* the second of two equal insertions, into a store that holds an extension
\* of the word
C11_Witness ==
    /\ op.name = "addCustomWord"
    /\ op.prevAdd
    /\ op.wasIn
    /\ ~IsBlank(op.word)
    /\ existsInCustom(customTrie, op.word)
    /\ \E v \in customWords : IsProperPrefix(toLowerCase(op.word.str), v)


\* ------------------------------------------------------------------------
\* C12: getSuggestions is deterministic and read-only: the same call on the
\* same stores returns the same sequence in the same order, whichever
\* arrangement the sort is free to produce, and neither getSuggestions nor
\* isCorrect changes a node or a flag of either store.
\* ------------------------------------------------------------------------
C12_Step ==
    /\ op'.name \in {"getSuggestions", "isCorrect"}
       => /\ customTrie' = customTrie
          /\ dictionaryTrie' = dictionaryTrie
    /\ op'.name = "getSuggestions"
       => getSuggestionsOutcomes(customTrie, dictionaryTrie, op'.word, op'.maxDistance)
              = {ret'.results}
    /\ (/\ op.name = "getSuggestions"
        /\ op'.name = "getSuggestions"
        /\ op'.word = op.word
        /\ op'.maxDistance = op.maxDistance)
       => ret'.results = ret.results

\* C12, of every step of the engine
C12_SuggestionsDeterministic == [][C12_Step]_vars

\* hits at equal distance, one of them found in both stores
C12_Witness ==
    /\ op.name = "getSuggestions"
    /\ \E i, j \in DOMAIN ret.results :
          i # j /\ ret.results[i].distance = ret.results[j].distance
    /\ Len(collectSuggestions(customTrie, dictionaryTrie,
                              toLowerCase(op.word.str), op.maxDistance))
           > Len(ret.results)
    /\ getSuggestions(customTrie, dictionaryTrie, op.word, op.maxDistance) = ret.results


\* ------------------------------------------------------------------------
\* C13: the two stores are independent and the dictionary store only grows:
\* addCustomWord, removeCustomWord and loadCustomWords leave the dictionary
\* store unchanged, loadDictionary leaves the custom store unchanged, and a
\* word existsInDictionary finds stays found after every later operation.
\* ------------------------------------------------------------------------
C13_Step ==
    /\ op'.name \in {"addCustomWord", "removeCustomWord", "loadCustomWords"}
       => dictionaryTrie' = dictionaryTrie
    /\ op'.name = "loadDictionary"
       => customTrie' = customTrie
    /\ \A word \in Queries :
          existsInDictionary(dictionaryTrie, word)
              => existsInDictionary(dictionaryTrie', word)
    /\ dictionaryTrie.nodes \subseteq dictionaryTrie'.nodes
    /\ dictionaryTrie.end \subseteq dictionaryTrie'.end

\* C13, of every step of the engine
C13_StoresIndependent == [][C13_Step]_vars

\* a word of both stores has just been removed: the dictionary still has it
C13_Witness ==
    /\ op.name = "removeCustomWord"
    /\ op.wasIn
    /\ ~existsInCustom(customTrie, op.word)
    /\ existsInDictionary(dictionaryTrie, op.word)
    /\ customTrie # EmptyTrie


\* ------------------------------------------------------------------------
\* C14: in each store, after any sequence of inserts and removes, a non-root
\* node exists exactly when its path is a prefix of a currently stored word;
\* every non-root node is word-terminal or owns a child; and removal deletes
\* a node on the removed word's path exactly when no remaining stored word
\* passes through it, touching no other node.
\* ------------------------------------------------------------------------
NodesArePrefixes(t, stored) ==
    /\ \A n \in t.nodes \ {<<>>} : \E w \in stored : IsPrefixOf(PathWord(n), w)
    /\ \A w \in stored : \A k \in 1..Len(w) :
          \E n \in t.nodes : PathWord(n) = SubSeq(w, 1, k)
    /\ \A n \in t.nodes \ {<<>>} : n \in t.end \/ ~NoChildren(t, n)
    /\ \A n \in t.nodes \ {<<>>} : SubSeq(n, 1, Len(n) - 1) \in t.nodes
    /\ t.end \subseteq t.nodes

C14_Structure ==
    /\ NodesArePrefixes(customTrie, customWords)
    /\ NodesArePrefixes(dictionaryTrie, dictionaryWords)

C14_Step ==
    /\ C14_Structure'
    /\ (op'.name = "removeCustomWord" /\ ~IsBlank(op'.word))
       => LET target == toLowerCase(op'.word.str)
          IN  /\ customTrie'.nodes \subseteq customTrie.nodes
              /\ \A n \in customTrie.nodes \ {<<>>} :
                    IF IsPrefixOf(PathWord(n), target)
                    THEN n \notin customTrie'.nodes
                             <=> ~\E w \in customWords' : IsPrefixOf(PathWord(n), w)
                    ELSE n \in customTrie'.nodes

\* C14, of every step of the engine
C14_NodesArePrefixes == [][C14_Step]_vars

\* "aa" has just been removed while "ab" stays: the shared node of "a" is
\* kept and the node of "aa" is gone
C14_Witness ==
    /\ op.name = "removeCustomWord"
    /\ op.wasIn
    /\ toLowerCase(op.word.str) = <<97, 97>>
    /\ <<97, 98>> \in customWords
    /\ <<97>> \notin customWords
    /\ <<0>> \in customTrie.nodes
    /\ <<0, 0>> \notin customTrie.nodes
    /\ <<0, 1>> \in customTrie.end


\* ------------------------------------------------------------------------
\* C15: the root node of each store is never word-terminal, whatever texts
\* loadDictionary, loadCustomWords, addCustomWord and removeCustomWord were
\* given, texts without any letter included.
\* insertWord skips every character of such a text and then flags the node
\* it stands on, which is the root: the statement fails after
\* addCustomWord("-").
\* ------------------------------------------------------------------------
C15_RootNeverTerminal ==
    /\ <<>> \notin customTrie.end
    /\ <<>> \notin dictionaryTrie.end


\* ------------------------------------------------------------------------
\* C16: insertion skips the characters outside a-z instead of rejecting the
\* word: addCustomWord(w) stores exactly the string left of lower-cased w
\* when every character outside a-z is deleted (after addCustomWord("a-b")
\* the word "ab" is contained), and containment of no other word changes.
\* ------------------------------------------------------------------------
\* the words searchWord finds in a store
ContainedWords(t) == {PathWord(n) : n \in t.end}

ProbeWords == {q.str : q \in Queries \ {NullWord}}

C16_Step ==
    (op'.name = "addCustomWord" /\ ~IsBlank(op'.word))
    => LET stored == Normalized(op'.word.str)
       IN  /\ searchWord(customTrie', stored)
           /\ stored # <<>> => existsInCustom(customTrie', Str(stored))
           /\ ContainedWords(customTrie') = ContainedWords(customTrie) \cup {stored}
           /\ \A v \in (ProbeWords \cup ContainedWords(customTrie')) \ {stored} :
                 searchWord(customTrie', v) = searchWord(customTrie, v)
           /\ \A n \in customTrie'.end : searchWord(customTrie', PathWord(n))

\* C16, of every step of the engine
C16_InsertSkipsInvalid == [][C16_Step]_vars

\* addCustomWord("a-b") has just stored "ab", which was not there, next to
\* other words
C16_Witness ==
    /\ op.name = "addCustomWord"
    /\ op.word = Str(<<97, 45, 98>>)
    /\ ~op.wasIn
    /\ existsInCustom(customTrie, Str(<<97, 98>>))
    /\ ~existsInCustom(customTrie, op.word)
    /\ existsInCustom(customTrie, Str(<<97>>))
    /\ ~existsInCustom(customTrie, Str(<<97, 98, 98>>))


\* ------------------------------------------------------------------------
\* C17: the custom store refines a set of words: after any sequence of
\* addCustomWord, removeCustomWord and loadCustomWords calls, existsInCustom
\* is true of a word of letters exactly when the lower-cased word is in
\* customWords, the set got by replaying the calls as set insertions and
\* set deletions (on a word of letters SetInsert and SetRemove insert and
\* delete the lower-cased word).
\* ------------------------------------------------------------------------
C17_CustomRefinesSet ==
    /\ \A q \in Queries :
          LettersOnly(IF q.null THEN <<>> ELSE q.str)
          => \A v \in CaseVariants(q.str) :
                existsInCustom(customTrie, Str(v)) <=> (toLowerCase(v) \in customWords)
    /\ \A w \in customWords \ {<<>>} : existsInCustom(customTrie, Str(w))
    /\ \A w \in ContainedWords(customTrie) : w \in customWords

\* a word has just been removed, others were added one by one and by batch
\* and are still there
C17_Witness ==
    /\ op.name = "removeCustomWord"
    /\ op.wasIn
    /\ LettersOnly(op.word.str)
    /\ ~existsInCustom(customTrie, op.word)
    /\ \E v \in customWords : IsProperPrefix(toLowerCase(op.word.str), v)
    /\ \E v \in customWords \ {<<>>} : IsProperPrefix(v, toLowerCase(op.word.str))
    /\ existsInCustom(customTrie, Str(<<65, 97>>))


\* ------------------------------------------------------------------------
\* C18: lookup does not skip invalid characters as insertion does: for a
\* non-empty word that after lower-casing has a character outside a-z,
\* isCorrect, existsInCustom and existsInDictionary are false whatever the
\* stores hold, so isCorrect(w) right after addCustomWord(w) is false.
\* ------------------------------------------------------------------------
HasInvalidChar(word) ==
    /\ ~IsBlank(word)
    /\ \E i \in DOMAIN word.str : ~IsLetter(toLowerCase(word.str)[i])

C18_LookupRejectsInvalid ==
    /\ \A q \in Queries :
          HasInvalidChar(q)
          => /\ ~isCorrect(customTrie, dictionaryTrie, q)
             /\ ~existsInCustom(customTrie, q)
             /\ ~existsInDictionary(dictionaryTrie, q)
    /\ (op.name = "isCorrect" /\ HasInvalidChar(op.word)) => ~ret.ok

\* isCorrect("a-b") right after addCustomWord("a-b"), which stored "ab"
C18_Witness ==
    /\ op.name = "isCorrect"
    /\ op.prevAdd
    /\ HasInvalidChar(op.word)
    /\ Normalized(op.word.str) # <<>>
    /\ ~ret.ok
    /\ existsInCustom(customTrie, Str(Normalized(op.word.str)))
    /\ isCorrect(customTrie, dictionaryTrie, Str(Normalized(op.word.str)))


\* ------------------------------------------------------------------------
\* C19: removal does not skip invalid characters as insertion does:
\* removeCustomWord(w) for a word that after lower-casing has a character
\* outside a-z leaves the custom store unchanged, so the entry that
\* addCustomWord(w) created is not removed by removeCustomWord(w).
\* ------------------------------------------------------------------------
C19_Step ==
    (op'.name = "removeCustomWord" /\ HasInvalidChar(op'.word))
    => /\ customTrie' = customTrie
       /\ (op.name = "addCustomWord" /\ op.word = op'.word)
          => searchWord(customTrie', Normalized(op'.word.str))

\* C19, of every step of the engine
C19_RemoveRejectsInvalid == [][C19_Step]_vars

\* removeCustomWord("a-b") right after addCustomWord("a-b"): "ab" is still
\* stored, as a leaf that a removal of "ab" would delete
C19_Witness ==
    /\ op.name = "removeCustomWord"
    /\ op.prevAdd
    /\ HasInvalidChar(op.word)
    /\ Normalized(op.word.str) # <<>>
    /\ existsInCustom(customTrie, Str(Normalized(op.word.str)))
    /\ ~\E v \in customWords : IsProperPrefix(Normalized(op.word.str), v)


\* ------------------------------------------------------------------------
\* C20: spell_checker_get_suggestions keeps the order of the engine's result
\* and caps the count: on success it returns 0, sets *output_count to
\* min(n, 100) for an engine result of n entries, and output_array[i] holds
\* the i-th entry of the engine's result, word and distance, for every i
\* below that count; when handle, word, output_array or output_count is null
\* it returns -1 and sets *output_count to 0 if output_count is not null.
\* C20_BoundaryKeepsResults is the statement as made; it fails for a word of
\* more than 255 characters, of which output_array holds the first 255.
\* C20_BoundaryKeepsPrefixes is the statement with the word so limited.
\* ------------------------------------------------------------------------
IsApiCall == op.name = "spell_checker_get_suggestions"

AnyNull == ~op.handle \/ op.word.null \/ ~op.output_array \/ ~op.output_count

C20_Status ==
    IF AnyNull
    THEN /\ ret.status = -1
         /\ ret.output_count.written = op.output_count
         /\ ret.output_count.written => ret.output_count.value = 0
         /\ ret.output_array = <<>>
    ELSE /\ ret.status = 0
         /\ ret.output_count.written
         /\ ret.output_count.value = Len(op.results)
                \/ (ret.output_count.value = MaxSuggestions
                    /\ Len(op.results) > MaxSuggestions)
         /\ ret.output_count.value <= MaxSuggestions
         /\ Len(ret.output_array) = ret.output_count.value
         /\ \A i \in 1..ret.output_count.value :
               ret.output_array[i].distance = op.results[i].distance

C20_BoundaryKeepsResults ==
    IsApiCall
    => /\ C20_Status
       /\ ~AnyNull => \A i \in 1..ret.output_count.value :
                          ret.output_array[i].word = op.results[i].word

\* C20 with the word limited to its first 255 characters
C20_BoundaryKeepsPrefixes ==
    IsApiCall
    => /\ C20_Status
       /\ ~AnyNull
          => \A i \in 1..ret.output_count.value :
                LET engineWord == op.results[i].word
                    out        == ret.output_array[i].word
                IN  /\ Len(engineWord) <= WordCopyLimit => out = engineWord
                    /\ Len(engineWord) > WordCopyLimit
                       => /\ Len(out) = WordCopyLimit
                          /\ \A k \in 1..WordCopyLimit : out[k] = engineWord[k]

\* a successful call on more results than the cap, the first of them a word
\* longer than the limit
C20_Witness ==
    /\ IsApiCall
    /\ ~AnyNull
    /\ ret.status = 0
    /\ Len(op.results) > MaxSuggestions
    /\ ret.output_count.value = MaxSuggestions
    /\ Len(op.results[1].word) > WordCopyLimit
    /\ ret.output_array[1].word # op.results[1].word
    /\ ret.output_array[MaxSuggestions].word = op.results[MaxSuggestions].word


\* ------------------------------------------------------------------------
\* C21: graph_layout_compute reports failure as a value: when handle,
\* output_array or output_count is null it returns -1 without dereferencing
\* a null pointer, in particular without writing through a null
\* output_count, and otherwise it returns 0 with *output_count equal to the
\* number of positions written.
\* The failure branch writes *output_count without testing it: the statement
\* fails for a null output_count.
\* ------------------------------------------------------------------------
C21_FailureIsAValue ==
    op.name = "graph_layout_compute"
    => IF ~op.handle \/ ~op.output_array \/ ~op.output_count
       THEN /\ ret.returned
            /\ ret.status = -1
            /\ ~ret.nullWrite
       ELSE /\ ret.returned
            /\ ret.status = 0
            /\ ret.output_count.written
            /\ ret.output_count.value = Len(ret.output_array)
            /\ ret.output_array = op.results

====
